---- MODULE Spec2Model ----
(***************************************************************************)
(* Position History Service: the API crawler (ingestion pipeline) of       *)
(* Server/api-crawler/api-crawler.py and the SOAP provider's               *)
(* GetClosestEntryByTimestamp of Server/api-provider/api-provider.py,      *)
(* both working on one InfluxDB bucket.                                     *)
(*                                                                         *)
(* Python values: None is the record [none |-> TRUE]; a float is the       *)
(* record [float |-> v] (coordinates are whole numbers here); a str is a   *)
(* sequence of one-character strings; a datetime in UTC is the record      *)
(* [day, sec] (days since the epoch, second of the day).                   *)
(***************************************************************************)
EXTENDS Integers, Sequences, FiniteSets, TLC

\* ------------------------------------------------------------------ bounds
\* Largest number of points the bucket holds before the services start.
MaxStore == 3
\* Largest number of records in a reply of the SOAP service.
MaxList == 3
\* Number of clock advances that are explored.
MaxAdvance == 4
\* Seconds the clock moves in one advance.
ClockStep == 30
\* An instant on a minute boundary around which all timestamps are placed.
Base == 99960

\* ------------------------------------------------------- program constants
\* Seconds by which the query window is widened on each side.
Step == 60
\* The window start may not reach timestamp - Ceiling.
Ceiling == 3600
\* try_counter = 2
Tries == 2
\* if response_code == 200
StatusOK == 200
\* schedule.every().minute
Minute == 60
\* web.json_response([], status=400)
StatusBadRequest == 400
\* web.json_response(response, dumps=...): the status when none is given
StatusDefault == 200
\* seconds of a day, datetime arithmetic
DaySeconds == 86400
\* An integer of a JSON document is kept in two parts, hi * 2^31 + lo, and
\* 2^31 seconds are 24855 days and 11648 seconds.
WordDays == 24855
WordRest == 11648
\* datetime.max is 9999-12-31 23:59:59, at 117 * 2^31 + 2146713983 seconds.
MaxDatetimeHi == 117
MaxDatetimeLo == 2146713983

\* ------------------------------------------------------------ Python values
None == [none |-> TRUE]

Float(v) == [float |-> v]

Abs(x) == IF x < 0 THEN 0 - x ELSE x

\* datetime.fromtimestamp(timestamp, timezone.utc)
FromTimestamp(ts) == [day |-> ts \div DaySeconds, sec |-> ts % DaySeconds]

\* An integer of any size.
Wide(hi, lo) == [hi |-> hi, lo |-> lo]

\* The instants from the epoch on that a datetime can hold.
DatetimeHolds(ts) ==
    /\ ts.hi >= 0
    /\ ts.hi < MaxDatetimeHi \/ (ts.hi = MaxDatetimeHi /\ ts.lo <= MaxDatetimeLo)

\* datetime.fromtimestamp(timestamp, timezone.utc) of such an integer.
FromWideTimestamp(ts) ==
    [day |-> ts.hi * WordDays + (ts.lo \div DaySeconds)
               + ((ts.hi * WordRest + (ts.lo % DaySeconds)) \div DaySeconds),
     sec |-> (ts.hi * WordRest + (ts.lo % DaySeconds)) % DaySeconds]

\* datetime.timestamp() of an aware datetime, then int()
ToTimestamp(dt) == dt.day * DaySeconds + dt.sec

\* ------------------------------------------------------------ configuration
\* config.get('influxdb', 'measurement')
ConfigMeasurement == "iss_position"

\* config.get('iss-api', 'source')
ConfigSource == "open-notify"

\* ------------------------------------------------------------------- store
\* One point of the bucket after the pivot of the query: the series key
\* (measurement, source tag), the time and the two fields.
MkPoint(m, s, t, lat, lon) ==
    [measurement |-> m, source |-> s, time |-> t, latitude |-> lat, longitude |-> lon]

\* Offsets from Base at which the bucket may already hold a point.
Offsets == {0 - 3660, 0 - 3600, 0 - 3570, 0 - 3540, 0 - 60, 0 - 45, 0 - 30, 0,
            30, 50, 60, 3540, 3600}

\* Points of the configured series that may be in the bucket at startup.
OwnPoints == { MkPoint(ConfigMeasurement, ConfigSource, FromTimestamp(Base + o), 1, 2) : o \in Offsets }

\* Points of other series in the same bucket.
ForeignPoints == { MkPoint(ConfigMeasurement, "other-feed", FromTimestamp(Base), 5, 6),
                   MkPoint("other_measurement", ConfigSource, FromTimestamp(Base + 15), 5, 6) }

\* Bucket contents at startup.
InitialStores == { S \in SUBSET (OwnPoints \cup ForeignPoints) : Cardinality(S) <= MaxStore }

\* ----------------------------------------------------------------- queries
\* Flux range(start:, stop:) keeps the rows with start <= _time < stop;
\* the two filters keep the configured measurement and source.
QueryRows(bucket, start, stop) ==
    { p \in bucket : /\ start <= ToTimestamp(p.time)
                     /\ ToTimestamp(p.time) < stop
                     /\ p.measurement = ConfigMeasurement
                     /\ p.source = ConfigSource }

\* All orders in which a finite set can be listed.
Perms(S) ==
    { f \in [1..Cardinality(S) -> S] : \A i, j \in 1..Cardinality(S) : f[i] = f[j] => i = j }

\* A row as record.values presents it.
RowValues(p) ==
    [_time |-> p.time, latitude |-> p.latitude, longitude |-> p.longitude, source |-> p.source]

\* The TableLists query_api.query may return for a set of rows: the rows in
\* any order, cut into two tables at any place.
TableLists(rows) ==
    { << [k \in 1..c |-> RowValues(f[k])],
         [k \in 1..(Cardinality(rows) - c) |-> RowValues(f[c + k])] >> :
        f \in Perms(rows), c \in 0..Cardinality(rows) }

\* [record.values for table in table_list for record in table.records]
RECURSIVE Flatten(_)
Flatten(tl) ==
    IF tl = <<>> THEN <<>>
    ELSE Head(tl) \o Flatten(Tail(tl))

\* The difference without abs().
Delta_Signed(time, timestamp) == ToTimestamp(time) - ToTimestamp(FromTimestamp(timestamp))

\* abs(points_df['_time'] - pd.to_datetime(timestamp, unit='s', utc=True))
Delta(time, timestamp) == Abs(ToTimestamp(time) - ToTimestamp(FromTimestamp(timestamp)))

\* The last row label with the least delta.
IdxMin_Last(deltas) ==
    CHOOSE i \in 1..Len(deltas) :
        /\ \A j \in 1..Len(deltas) : deltas[i] <= deltas[j]
        /\ \A j \in (i + 1)..Len(deltas) : deltas[j] > deltas[i]

\* points_df['delta'].idxmin(): the first row label with the least delta.
IdxMin(deltas) ==
    CHOOSE i \in 1..Len(deltas) :
        /\ \A j \in 1..Len(deltas) : deltas[i] <= deltas[j]
        /\ \A j \in 1..(i - 1) : deltas[j] > deltas[i]

\* The timestamp of the record cut to the start of its minute.
LocationRecord_MinuteStart(row) ==
    [timestamp |-> (ToTimestamp(row._time) \div Minute) * Minute, latitude |-> row.latitude,
     longitude |-> row.longitude, source |-> row.source]

\* The LocationRecord built from the closest row.
LocationRecord(row) ==
    [timestamp |-> ToTimestamp(row._time), latitude |-> row.latitude,
     longitude |-> row.longitude, source |-> row.source]

\* The first row of the result taken for the closest.
Closest_FirstRow(data_points, timestamp) == LocationRecord(data_points[1])

\* points_df.loc[points_df['delta'].idxmin()] turned into a LocationRecord.
Closest(data_points, timestamp) ==
    LocationRecord(data_points[IdxMin([i \in 1..Len(data_points) |-> Delta(data_points[i]._time, timestamp)])])

\* The LocationRecord GetLocationHistory builds from a row.
HistoryRecord(row) ==
    [timestamp |-> ToTimestamp(row._time), latitude |-> row.latitude,
     longitude |-> row.longitude, source |-> row.source]

\* The records yielded last row first.
HistoryRecords_Reversed(tl) ==
    [i \in 1..Len(Flatten(tl)) |-> HistoryRecord(Flatten(tl)[Len(Flatten(tl)) + 1 - i])]

\* for table in table_list: for record in table.records: yield ...
HistoryRecords(tl) == [i \in 1..Len(Flatten(tl)) |-> HistoryRecord(Flatten(tl)[i])]

\* A failed query that yields nothing.
HistoryYield_Silent(ok, tl) == IF ok THEN HistoryRecords(tl) ELSE <<>>

\* if table_list is not None: the records; else: yield None
HistoryYield(ok, tl) == IF ok THEN HistoryRecords(tl) ELSE << None >>

\* The error logged for a result without rows as well.
HistoryErrors_OnEmpty(ok, tl) == IF ok /\ Flatten(tl) # <<>> THEN <<>> ELSE <<"query">>

\* else: logging.error("Failed to retrieve data from InfluxDB")
HistoryErrors(ok, tl) == IF ok THEN <<>> ELSE <<"query">>

\* A query that deletes what it read.
AfterQuery_Consuming(bucket) == {}

\* The bucket after query_api.query of a Flux query without to(): as before.
AfterQuery(bucket) == bucket

\* The stop of the window left where it is.
WidenStop_Kept(stop) == stop

\* stop_time += 60
WidenStop(stop) == stop + Step

\* start_time -= 60
WidenStart(start) == start - Step

\* A result of one row taken for an empty one.
IsEmpty_UpToOne(data_points) == Len(data_points) <= 1

\* if len(data_points) == 0
IsEmpty(data_points) == Len(data_points) = 0

\* The cutoff one window later than coded.
CeilingReached_Late(start, timestamp) == start <= timestamp - Ceiling - Step - Step

\* if start_time <= timestamp - 3600
CeilingReached(start, timestamp) == start <= timestamp - Ceiling

\* ------------------------------------------------------ the endpoint's side
\* Python's str values that get parsed are sequences of characters.
Digits == <<"0", "1", "2", "3", "4", "5", "6", "7", "8", "9">>

IsDigit(c) == \E i \in 1..Len(Digits) : Digits[i] = c

DigitValue(c) == (CHOOSE i \in 1..Len(Digits) : Digits[i] = c) - 1

\* The number a string of digits denotes.
RECURSIVE Decimal(_)
Decimal(s) ==
    IF s = <<>> THEN 0
    ELSE Decimal(SubSeq(s, 1, Len(s) - 1)) * 10 + DigitValue(s[Len(s)])

\* The part of a numeral after its sign.
Unsigned(s) == IF Len(s) > 0 /\ s[1] \in {"-", "+"} THEN Tail(s) ELSE s

\* float(value) accepts, of the strings over signs, digits and letters, the
\* ones made of an optional sign and at least one digit.
FloatAccepts(s) == Len(Unsigned(s)) > 0 /\ \A i \in 1..Len(Unsigned(s)) : IsDigit(Unsigned(s)[i])

\* Latitude strings the endpoint may send: "12", "-7", "7-".
LatStrings == { <<"1", "2">>, <<"-", "7">>, <<"7", "-">> }

\* Longitude strings the endpoint may send: "+3", "".
LonStrings == { <<"+", "3">>, <<>> }

\* Values of the message field the endpoint may send.
Messages == {"success", "Success"}

\* Values of the timestamp field the endpoint may send.
PayloadTimes == {Wide(0, Base - 45), Wide(0, Base + 50)}

\* A reply whose timestamp is in the year 10000.
FarFutureDocument ==
    [shape |-> "iss", message |-> "success", timestamp |-> Wide(MaxDatetimeHi + 1, 0),
     iss_position |-> [latitude |-> <<"1", "2">>, longitude |-> <<"+", "3">>]]

\* A complete reply that comes with a status other than 200.
UnavailableDocument ==
    [shape |-> "iss", message |-> "success", timestamp |-> Wide(0, Base + 50),
     iss_position |-> [latitude |-> <<"1", "2">>, longitude |-> <<"+", "3">>]]

\* The decoded documents: the reply of the position endpoint, and a document
\* of another shape.
Documents ==
    { [shape |-> "iss", message |-> m, timestamp |-> t,
       iss_position |-> [latitude |-> la, longitude |-> lo]] :
        m \in Messages, t \in PayloadTimes, la \in LatStrings, lo \in LonStrings }
    \cup { [shape |-> "other"], FarFutureDocument }

\* Bodies of a response: bytes that are no UTF-8 text, text that is no JSON,
\* and the JSON text of a document.
Contents ==
    { [form |-> "undecodable"], [form |-> "not_json"] }
    \cup { [form |-> "json", doc |-> d] : d \in Documents }

\* What requests.get may do: raise (no connection, timeout after 15 s), or
\* return a response.
Responses ==
    { [kind |-> "exception"] }
    \cup { [kind |-> "response", status_code |-> 503, content |-> [form |-> "not_json"]] }
    \cup { [kind |-> "response", status_code |-> 503, content |-> [form |-> "json", doc |-> UnavailableDocument]] }
    \cup { [kind |-> "response", status_code |-> StatusOK, content |-> c] : c \in Contents }

\* -------------------------------------------------------------- ISSCrawler
\* A raised exception that nobody caught yet.
Raise(e) == [exception |-> e]

IsRaised(v) == "exception" \in DOMAIN v

IsNone(v) == "none" \in DOMAIN v

\* json.loads(response_content): JSONDecodeError is caught and gives None,
\* the UnicodeDecodeError of undecodable bytes is not caught.
api_response_to_json(response_content) ==
    CASE response_content.form = "undecodable" -> Raise("UnicodeDecodeError")
      [] response_content.form = "not_json" -> None
      [] OTHER -> response_content.doc

\* What the schema file accepts: {"message": string, "timestamp": integer,
\* "iss_position": {"latitude": string, "longitude": string}}.
SchemaAccepts(json_content) == json_content.shape = "iss"

\* validate(instance=json_content, schema=self.json_schema)
validate_json(json_content) == SchemaAccepts(json_content)

\* Every status code taken for 200.
check_api_response_code_Any(response_code) == TRUE

\* if response_code == 200
check_api_response_code(response_code) == response_code = StatusOK

\* Any capitalisation of the message counts.
check_json_message_success_AnyCase(json_content) == json_content.message \in {"success", "Success"}

\* if json_content["message"] == "success"
check_json_message_success(json_content) == json_content.message = "success"

\* float(value), None on ValueError
convert_string_to_float(value) ==
    IF FloatAccepts(value)
    THEN Float((IF Len(value) > 0 /\ value[1] = "-" THEN 0 - 1 ELSE 1) * Decimal(Unsigned(value)))
    ELSE None

\* datetime.fromtimestamp(timestamp, timezone.utc): ValueError (year out of
\* range) for an instant no datetime can hold; nothing catches it.
convert_timestamp_for_influxdb(ts) ==
    IF DatetimeHolds(ts) THEN FromWideTimestamp(ts) ELSE Raise("ValueError")

\* The two coordinates stored under each other's key.
convert_json_content_Swapped(json_content) ==
    IF IsRaised(convert_timestamp_for_influxdb(json_content.timestamp))
    THEN convert_timestamp_for_influxdb(json_content.timestamp)
    ELSE
    [json_content EXCEPT
        !.timestamp = convert_timestamp_for_influxdb(json_content.timestamp),
        !.iss_position = [latitude |-> convert_string_to_float(json_content.iss_position.longitude),
                          longitude |-> convert_string_to_float(json_content.iss_position.latitude)]]

\* The timestamp and the two coordinates replaced by their converted values;
\* the exception of the timestamp's conversion passes through.
convert_json_content(json_content) ==
    IF IsRaised(convert_timestamp_for_influxdb(json_content.timestamp))
    THEN convert_timestamp_for_influxdb(json_content.timestamp)
    ELSE
    [json_content EXCEPT
        !.timestamp = convert_timestamp_for_influxdb(json_content.timestamp),
        !.iss_position = [latitude |-> convert_string_to_float(json_content.iss_position.latitude),
                          longitude |-> convert_string_to_float(json_content.iss_position.longitude)]]

\* One missing coordinate is let through.
CoordinatesPresent_Either(json_content) ==
    ~IsNone(json_content.iss_position.latitude) \/ ~IsNone(json_content.iss_position.longitude)

\* if latitude is not None and longitude is not None
CoordinatesPresent(json_content) ==
    ~IsNone(json_content.iss_position.latitude) /\ ~IsNone(json_content.iss_position.longitude)

\* The error messages convert_json_content logs: one per coordinate that
\* float() rejected.
ConversionErrors(json_content) ==
    (IF IsNone(json_content.iss_position.latitude) THEN <<"float">> ELSE <<>>)
    \o (IF IsNone(json_content.iss_position.longitude) THEN <<"float">> ELSE <<>>)

\* The outcome of one call: what it returned (or raised), whether it got as
\* far as convert_json_content, and the errors it logged.
Outcome(result, converted, errors) == [result |-> result, converted |-> converted, errors |-> errors]

\* fetch_iss_data, given what requests.get did.
fetch_iss_data(response) ==
    IF response.kind = "exception" THEN Outcome(None, FALSE, <<"request">>)
    ELSE IF ~check_api_response_code(response.status_code) THEN Outcome(None, FALSE, <<"status">>)
    ELSE LET json_content == api_response_to_json(response.content) IN
      IF IsRaised(json_content) THEN Outcome(json_content, FALSE, <<>>)
      ELSE IF IsNone(json_content) THEN Outcome(None, FALSE, <<"decode">>)
      ELSE IF ~validate_json(json_content) THEN Outcome(None, FALSE, <<"schema">>)
      ELSE IF ~check_json_message_success(json_content) THEN Outcome(None, FALSE, <<"message">>)
      ELSE LET converted == convert_json_content(json_content) IN
        IF IsRaised(converted) THEN Outcome(converted, TRUE, <<>>)
        ELSE IF CoordinatesPresent(converted)
        THEN Outcome(converted, TRUE, ConversionErrors(converted))
        ELSE Outcome(None, TRUE, ConversionErrors(converted))

\* ---------------------------------------------------------- InfluxDBWriter
\* The point write_data builds.
Point(measurement, source, latitude, longitude, time) ==
    MkPoint(measurement, source, time, latitude.float, longitude.float)

\* A written point replaces the point of the same series and time.
Written(bucket, point) ==
    { p \in bucket : ~(p.measurement = point.measurement /\ p.source = point.source /\ p.time = point.time) }
    \cup {point}

\* The failed write leaves no trace in the log.
LogAfterWrite_Silent(messages, ok) == messages

\* except Exception as e: logging.error("Failed to write data to InfluxDB")
LogAfterWrite(messages, ok) == IF ok THEN messages ELSE Append(messages, "write")

\* -------------------------------------------------------------------- Main
\* The counter is left as it is after a successful fetch.
NextTryCounter_Kept(counter, data) == IF ~IsNone(data) THEN counter ELSE counter - 1

\* try_counter = 0 after a successful fetch, try_counter -= 1 otherwise.
NextTryCounter(counter, data) == IF ~IsNone(data) THEN 0 ELSE counter - 1

\* The loop is entered for the first attempt only.
LoopGoesOn_Once(counter) == counter = Tries

\* while try_counter > 0
LoopGoesOn(counter) == counter > 0

\* The next ":00" after an instant.
NextMinute(t) == ((t \div Minute) + 1) * Minute

\* Bucket contents at the start of the crawler.
CrawlerStores == { {}, { MkPoint(ConfigMeasurement, ConfigSource, FromTimestamp(Base - 45), 1, 2) } }

\* ------------------------------------------------------------------- state
VARIABLES
    store,          \* the points of the bucket
    rpc,            \* GetClosestEntryByTimestamp: "idle", "loop" or "done"
    timestamp,      \* its argument
    start_time,     \* start of the next query window
    stop_time,      \* stop of the next query window
    table_list,     \* the tables its last query returned (none when it failed)
    location_record,\* what it returned (None or a LocationRecord)
    returned_at,    \* the return statement it left by: "found", "not_found", "error"
    windows,        \* the windows it has queried, in order
    previous        \* what the call before returned, when this call repeats it

rvars == <<rpc, timestamp, start_time, stop_time, table_list, location_record, returned_at, windows, previous>>

VARIABLES
    h_args,         \* GetLocationHistory: <<start_time, stop_time>> of the last call
    h_queries,      \* the ranges it queried in that call
    h_read_ok,      \* whether execute_read_request returned tables and not None
    h_table_list,   \* the tables it returned
    yielded,        \* what the generator yielded, in order
    h_log,          \* the messages of level error of that call
    h_previous      \* what the call before yielded, when this call repeats it

hvars == <<h_args, h_queries, h_read_ok, h_table_list, yielded, h_log, h_previous>>

VARIABLES
    pc,             \* the crawler: "idle", "loop" (at the while), "write", "crashed"
    try_counter,    \* fetch_and_store_iss_data's counter
    iss_data,       \* what the last fetch_iss_data returned
    attempts,       \* this tick's calls of fetch_iss_data: response and outcome
    writes,         \* this tick's calls of write_data: the point and whether it was stored
    log,            \* this tick's messages of level error
    now,            \* the clock
    next_run,       \* when the scheduler runs the job next
    wakeup          \* the wakeup time the last tick logged

cvars == <<pc, try_counter, iss_data, attempts, writes, log, now, next_run, wakeup>>

VARIABLES
    w_handler,      \* the REST handler that ran last ("none" before the first)
    w_request,      \* the body of the request it got
    w_soap,         \* what the SoapClient method returned to it
    w_response      \* the HTTP response it returned

wvars == <<w_handler, w_request, w_soap, w_response>>

vars == <<store, rvars, hvars, cvars, wvars>>

InitCrawler ==
    /\ pc = "idle"
    /\ try_counter = 0
    /\ iss_data = None
    /\ attempts = <<>>
    /\ writes = <<>>
    /\ log = <<>>
    /\ now = Base + 20
    /\ next_run = NextMinute(Base + 20)
    /\ wakeup = Base + 20

\* Instants a caller asks for.
Targets == {Base, Base + 15}

InitResolver ==
    /\ rpc = "idle"
    /\ timestamp = Base
    /\ start_time = Base
    /\ stop_time = Base
    /\ table_list = <<>>
    /\ location_record = None
    /\ returned_at = "none"
    /\ windows = <<>>
    /\ previous = None

\* Ranges a caller asks the history of.
HistoryRanges == { <<Base - 60, Base + 60>>, <<Base + 100, Base + 200>>, <<Base - 3700, Base + 3700>> }

InitHistory ==
    /\ h_args = <<>>
    /\ h_queries = <<>>
    /\ h_read_ok = FALSE
    /\ h_table_list = <<>>
    /\ yielded = <<>>
    /\ h_log = <<>>
    /\ h_previous = None

\* ------------------------------------------------------------ the web server
\* A Python list.
PyList(items) == [list |-> items]

\* json.dumps(serialize_object(obj)): the JSON text, told by what it denotes:
\* null, or an array of nulls and objects.
Dumps(obj) ==
    IF IsNone(obj) THEN [json |-> "null"]
    ELSE [json |-> "array",
          items |-> [i \in 1..Len(obj.list) |->
                        IF IsNone(obj.list[i]) THEN [json |-> "null"]
                        ELSE [json |-> "object", members |-> obj.list[i]]]]

\* web.json_response(data, status=status)
json_response(data, status) == [status |-> status, body |-> Dumps(data)]

\* Records the SOAP service may send.
WebRecords ==
    { [timestamp |-> Base + o, latitude |-> 1, longitude |-> 2, source |-> ConfigSource] :
        o \in {0 - 45, 0, 50} }

\* The sequences of at most n elements of a set.
SeqsUpTo(S, n) == UNION { [1..k -> S] : k \in 0..n }

\* What soap_client.service.GetLocationHistory does: raise (no connection,
\* SOAP fault), or return the list of the records.
HistoryCalls ==
    { [raised |-> TRUE] }
    \cup { [raised |-> FALSE, value |-> PyList(l)] : l \in SeqsUpTo(WebRecords, MaxList) }

\* What soap_client.service.GetClosestEntryByTimestamp does: raise, or
\* return the record, or None for no record.
ClosestCalls ==
    { [raised |-> TRUE] } \cup { [raised |-> FALSE, value |-> v] : v \in WebRecords \cup {None} }

\* SoapClient.get_location_history: the response, None on any exception.
get_location_history(call) == IF call.raised THEN None ELSE call.value

\* SoapClient.get_closest_entry_by_timestamp: [response], None on any
\* exception.
get_closest_entry_by_timestamp(call) == IF call.raised THEN None ELSE PyList(<< call.value >>)

\* JSON bodies of requests for the location history: those the request
\* schema accepts, with StartTime and StopTime, and one it rejects.
HistoryRequests ==
    { [valid |-> TRUE, StartTime |-> r[1], StopTime |-> r[2]] : r \in HistoryRanges }
    \cup { [valid |-> FALSE] }

\* JSON bodies of requests for the closest entry.
ClosestRequests ==
    { [valid |-> TRUE, Timestamp |-> t] : t \in Targets } \cup { [valid |-> FALSE] }

\* ServerBackend.validate_json
validate_request(rest_data) == rest_data.valid

\* The SoapClient method was not called.
NotCalled == [called |-> FALSE]

\* if response is None: 400 and []; else the response as JSON.
history_response(response) ==
    IF response = None THEN json_response(PyList(<<>>), StatusBadRequest)
    ELSE json_response(response, StatusDefault)

\* if response == [None]: 400 and []; else the response as JSON.
closest_response(response) ==
    IF response = PyList(<< None >>) THEN json_response(PyList(<<>>), StatusBadRequest)
    ELSE json_response(response, StatusDefault)

InitWeb ==
    /\ w_handler = "none"
    /\ w_request = [valid |-> FALSE]
    /\ w_soap = NotCalled
    /\ w_response = [status |-> 0, body |-> [json |-> "null"]]

\* --------------------------------------------- GetClosestEntryByTimestamp
\* The call arrives: the first window is [timestamp - 60, timestamp + 60).
ClosestCall ==
    /\ rpc \in {"idle", "done"}
    /\ \E t \in Targets :
        /\ timestamp' = t
        /\ start_time' = t - Step
        /\ stop_time' = t + Step
    /\ rpc' = "loop"
    /\ table_list' = <<>>
    /\ location_record' = None
    /\ returned_at' = "none"
    /\ windows' = <<>>
    /\ previous' = None
    /\ UNCHANGED <<store, hvars, cvars, wvars>>

\* The same call is issued again.
ClosestRepeat ==
    /\ rpc = "done"
    /\ timestamp' = timestamp
    /\ start_time' = timestamp - Step
    /\ stop_time' = timestamp + Step
    /\ rpc' = "loop"
    /\ table_list' = <<>>
    /\ location_record' = None
    /\ returned_at' = "none"
    /\ windows' = <<>>
    /\ previous' = [location_record |-> location_record, returned_at |-> returned_at]
    /\ UNCHANGED <<store, hvars, cvars, wvars>>

\* One iteration of the while loop in which the query raised: read_data
\* returns None and the method returns None.
ClosestQueryFails ==
    /\ rpc = "loop"
    /\ windows' = Append(windows, <<start_time, stop_time>>)
    /\ table_list' = <<>>
    /\ location_record' = None
    /\ returned_at' = "error"
    /\ rpc' = "done"
    /\ store' = AfterQuery(store)
    /\ UNCHANGED <<timestamp, start_time, stop_time, previous, hvars, cvars, wvars>>

\* One iteration in which the query succeeded without rows: the window is
\* widened, and the method returns None once the start reached the ceiling.
ClosestQueryEmpty ==
    /\ rpc = "loop"
    /\ \E tl \in TableLists(QueryRows(store, start_time, stop_time)) :
        /\ IsEmpty(Flatten(tl))
        /\ table_list' = tl
    /\ windows' = Append(windows, <<start_time, stop_time>>)
    /\ start_time' = WidenStart(start_time)
    /\ stop_time' = WidenStop(stop_time)
    /\ IF CeilingReached(start_time', timestamp)
       THEN /\ location_record' = None
            /\ returned_at' = "not_found"
            /\ rpc' = "done"
       ELSE UNCHANGED <<location_record, returned_at, rpc>>
    /\ store' = AfterQuery(store)
    /\ UNCHANGED <<timestamp, previous, hvars, cvars, wvars>>

\* One iteration in which the query returned rows: the closest is returned.
ClosestQueryFound ==
    /\ rpc = "loop"
    /\ \E tl \in TableLists(QueryRows(store, start_time, stop_time)) :
        /\ ~IsEmpty(Flatten(tl))
        /\ table_list' = tl
        /\ location_record' = Closest(Flatten(tl), timestamp)
    /\ windows' = Append(windows, <<start_time, stop_time>>)
    /\ returned_at' = "found"
    /\ rpc' = "done"
    /\ store' = AfterQuery(store)
    /\ UNCHANGED <<timestamp, start_time, stop_time, previous, hvars, cvars, wvars>>

NextResolver ==
    ClosestCall \/ ClosestRepeat \/ ClosestQueryFails \/ ClosestQueryEmpty \/ ClosestQueryFound

\* Startup with any bucket contents.
InitAnyStore == InitResolver /\ InitHistory /\ InitCrawler /\ InitWeb /\ store \in InitialStores

\* GetClosestEntryByTimestamp alone, against a bucket nobody writes to.
SpecResolver == InitAnyStore /\ [][NextResolver]_vars

\* The same, with a call that has begun going on: every query returns,
\* with rows, without rows or with an error.
SpecResolverFair ==
    SpecResolver /\ WF_vars(ClosestQueryFails \/ ClosestQueryEmpty \/ ClosestQueryFound)

\* ------------------------------------------------------- GetLocationHistory
\* The whole call for one range: execute_read_request is called once and
\* returns None or the tables; the generator is run to its end.
HistoryRun(range) ==
    /\ h_args' = range
    /\ h_queries' = << range >>
    /\ store' = AfterQuery(store)
    /\ \E ok \in BOOLEAN :
       \E tl \in IF ok THEN TableLists(QueryRows(store, range[1], range[2])) ELSE { <<>> } :
          /\ h_read_ok' = ok
          /\ h_table_list' = tl
          /\ h_log' = HistoryErrors(ok, tl)
          /\ yielded' = HistoryYield(ok, tl)
    /\ UNCHANGED <<rvars, cvars, wvars>>

\* A call arrives.
HistoryCall ==
    /\ h_previous' = None
    /\ \E range \in HistoryRanges : HistoryRun(range)

\* The same call is issued again.
HistoryRepeat ==
    /\ h_args # <<>>
    /\ h_previous' = [yielded |-> yielded, failed |-> h_log # <<>>]
    /\ HistoryRun(h_args)

NextHistory == HistoryCall \/ HistoryRepeat

\* GetLocationHistory alone, against a bucket nobody writes to.
SpecHistory == InitAnyStore /\ [][NextHistory]_vars

\* ------------------------------------------------------ the crawler's tick
\* The next run planned one period after the run that was due.
NextRun_FixedRate(t) == next_run + Minute

\* The job's next run, planned when the job has returned at instant t:
\* every().minute.at(":00").
NextRun(t) == NextMinute(t)

\* schedule.run_pending() finds the job due and calls fetch_and_store_iss_data.
TickStart ==
    /\ pc = "idle"
    /\ now >= next_run
    /\ try_counter' = Tries
    /\ iss_data' = None
    /\ attempts' = <<>>
    /\ writes' = <<>>
    /\ log' = <<>>
    /\ pc' = "loop"
    /\ wakeup' = now
    /\ UNCHANGED <<store, rvars, hvars, wvars, now, next_run>>

\* One pass of the while loop up to the call of write_data: fetch_iss_data
\* is called; an exception it lets through ends the process.
AttemptWith(responses) ==
    /\ \E response \in responses :
        LET outcome == fetch_iss_data(response) IN
        /\ attempts' = Append(attempts, [response |-> response, outcome |-> outcome])
        /\ IF IsRaised(outcome.result)
           THEN /\ pc' = "crashed"
                /\ log' = log \o outcome.errors
                /\ UNCHANGED <<iss_data, try_counter>>
           ELSE /\ iss_data' = outcome.result
                /\ try_counter' = NextTryCounter(try_counter, outcome.result)
                /\ IF ~IsNone(outcome.result)
                   THEN /\ pc' = "write"
                        /\ log' = log \o outcome.errors
                   ELSE /\ pc' = "loop"
                        /\ log' = log \o outcome.errors \o <<"fetch_failed">>
    /\ UNCHANGED <<store, rvars, hvars, wvars, writes, now, next_run, wakeup>>

Attempt ==
    /\ pc = "loop"
    /\ LoopGoesOn(try_counter)
    /\ AttemptWith(Responses)

\* write_data: the point is written, or the write raises and the error is
\* logged.
WriteData ==
    /\ pc = "write"
    /\ LET point == Point(ConfigMeasurement, ConfigSource, iss_data.iss_position.latitude,
                          iss_data.iss_position.longitude, iss_data.timestamp) IN
       \E ok \in BOOLEAN :
        /\ writes' = Append(writes, [point |-> point, ok |-> ok])
        /\ store' = IF ok THEN Written(store, point) ELSE store
        /\ log' = LogAfterWrite(log, ok)
    /\ pc' = "loop"
    /\ UNCHANGED <<rvars, hvars, wvars, try_counter, iss_data, attempts, now, next_run, wakeup>>

\* The while condition fails, the job returns and the scheduler plans the
\* next run at the next full minute.
TickEnd ==
    /\ pc = "loop"
    /\ ~LoopGoesOn(try_counter)
    /\ pc' = "idle"
    /\ next_run' = NextRun(now)
    /\ UNCHANGED <<store, rvars, hvars, wvars, try_counter, iss_data, attempts, writes, log, now, wakeup>>

\* Time passes.
Advance ==
    /\ now + ClockStep <= Base + 20 + MaxAdvance * ClockStep
    /\ now' = now + ClockStep
    /\ UNCHANGED <<store, rvars, hvars, wvars, pc, try_counter, iss_data, attempts, writes, log, next_run, wakeup>>

NextCrawler == TickStart \/ Attempt \/ WriteData \/ TickEnd \/ Advance

\* The crawler alone.
Init == InitResolver /\ InitHistory /\ InitCrawler /\ InitWeb /\ store \in CrawlerStores

SpecCrawler == Init /\ [][NextCrawler]_vars

\* The crawler alone, each request (timeout 15 s) and each insert returning
\* or raising, so that a tick that has begun goes on.
SpecCrawlerFair ==
    SpecCrawler /\ WF_vars(Attempt) /\ WF_vars(WriteData) /\ WF_vars(TickEnd)

\* handle_get_location_history for a request whose body is JSON.
HandleGetLocationHistory ==
    /\ w_handler' = "history"
    /\ \E rest_data \in HistoryRequests : \E call \in HistoryCalls :
        /\ w_request' = rest_data
        /\ IF validate_request(rest_data)
           THEN /\ w_soap' = get_location_history(call)
                /\ w_response' = history_response(get_location_history(call))
           ELSE /\ w_soap' = NotCalled
                /\ w_response' = json_response(PyList(<<>>), StatusBadRequest)
    /\ UNCHANGED <<store, rvars, hvars, cvars>>

\* handle_get_closest_entry_by_timestamp for a request whose body is JSON.
HandleGetClosestEntryByTimestamp ==
    /\ w_handler' = "closest"
    /\ \E rest_data \in ClosestRequests : \E call \in ClosestCalls :
        /\ w_request' = rest_data
        /\ IF validate_request(rest_data)
           THEN /\ w_soap' = get_closest_entry_by_timestamp(call)
                /\ w_response' = closest_response(get_closest_entry_by_timestamp(call))
           ELSE /\ w_soap' = NotCalled
                /\ w_response' = json_response(PyList(<<>>), StatusBadRequest)
    /\ UNCHANGED <<store, rvars, hvars, cvars>>

NextWeb == HandleGetLocationHistory \/ HandleGetClosestEntryByTimestamp

\* The REST handlers of the web server alone.
SpecWeb == Init /\ [][NextWeb]_vars

Next == NextResolver \/ NextHistory \/ NextCrawler \/ NextWeb

\* The crawler and the provider on the same bucket.
Spec == Init /\ [][Next]_vars

\* What requests.get does in the runs that interleave crawler and provider:
\* it raises, or returns one of two replies that lead to an insert.
SharedResponses ==
    { [kind |-> "exception"] }
    \cup { [kind |-> "response", status_code |-> StatusOK,
            content |-> [form |-> "json",
                         doc |-> [shape |-> "iss", message |-> "success", timestamp |-> t,
                                  iss_position |-> [latitude |-> la, longitude |-> <<"+", "3">>]]]] :
            t \in PayloadTimes, la \in { <<"1", "2">> } }

AttemptShared ==
    /\ pc = "loop"
    /\ LoopGoesOn(try_counter)
    /\ AttemptWith(SharedResponses)

NextShared ==
    \/ ClosestCall \/ ClosestQueryFails \/ ClosestQueryEmpty \/ ClosestQueryFound
    \/ HistoryCall
    \/ TickStart \/ AttemptShared \/ WriteData \/ TickEnd \/ Advance

\* The crawler and the provider on the same bucket, with fewer replies of
\* the endpoint and no repeated calls.
SpecShared == Init /\ [][NextShared]_vars

\* ------------------------------------------------- properties of the provider
\* The stored points of the series the provider is configured for.
OwnStored == { p \in store : p.measurement = ConfigMeasurement /\ p.source = ConfigSource }

\* Distance in seconds of a stored point from the instant asked for.
Distance(p) == Abs(ToTimestamp(p.time) - timestamp)

Found == rpc = "done" /\ returned_at = "found"

NotFound == rpc = "done" /\ returned_at = "not_found"

Failed == rpc = "done" /\ returned_at = "error"

\* C3: when GetClosestEntryByTimestamp(T) returns a sample, it is a stored
\* sample of the configured series and no stored sample of that series is
\* strictly closer to T; a sample exactly at T is returned with delta 0, and
\* when the closest samples are at T-45 and T+50 the one at T-45 is returned.
C3_ClosestIsNearest ==
    Found =>
        /\ \E p \in OwnStored : location_record = LocationRecord(RowValues(p))
        /\ \A p \in OwnStored : Distance(p) >= Abs(location_record.timestamp - timestamp)
        /\ (\E p \in OwnStored : ToTimestamp(p.time) = timestamp)
                => location_record.timestamp = timestamp
        /\ ( /\ \E p \in OwnStored : ToTimestamp(p.time) = timestamp - 45
             /\ \E p \in OwnStored : ToTimestamp(p.time) = timestamp + 50
             /\ \A p \in OwnStored : Distance(p) >= 45 )
                => location_record.timestamp = timestamp - 45

\* C3 witness: samples at T-45 and T+50 and a foreign point at T are stored,
\* the store listed T+50 first, and the sample at T-45 was returned.
C3_Witness ==
    /\ Found
    /\ \E p \in OwnStored : ToTimestamp(p.time) = timestamp + 50
    /\ \E p \in store \ OwnStored : ToTimestamp(p.time) = timestamp
    /\ ToTimestamp(Flatten(table_list)[1]._time) = timestamp + 50
    /\ location_record.timestamp = timestamp - 45

\* C4: a failed store query yields a result that differs from the result of
\* the not-found return (which is None).
C4_ErrorDistinctFromNotFound == Failed => location_record # None

\* C5: not-found after successful queries means that no stored sample of the
\* series lies within 3600 seconds of T.
C5_NotFoundMeansNoneWithinHour ==
    NotFound => \A p \in OwnStored : Distance(p) > Ceiling

\* C6: if no stored sample of the series lies within 3600 seconds of T and
\* no query failed, the call returns not-found (None).
C6_NoneWithinHourGivesNotFound ==
    (rpc = "done" /\ returned_at # "error" /\ \A p \in OwnStored : Distance(p) > Ceiling)
        => (returned_at = "not_found" /\ location_record = None)

\* C6 witness: not-found was returned although the series has a stored
\* sample, 3660 seconds before T.
C6_Witness ==
    /\ NotFound
    /\ \E p \in OwnStored : ToTimestamp(p.time) = timestamp - Ceiling - Step
    /\ \A p \in OwnStored : Distance(p) > Ceiling

\* The rows of the last query with their place: table number, row number.
Places ==
    { <<t, r>> : t \in 1..Len(table_list), r \in 1..MaxStore + 2 } \cap
    UNION { {t} \X (1..Len(table_list[t])) : t \in 1..Len(table_list) }

\* Place a comes before place b in the order the store returned the rows.
Before(a, b) == a[1] < b[1] \/ (a[1] = b[1] /\ a[2] < b[2])

RowAt(a) == table_list[a[1]][a[2]]

\* C7: among the rows of the result set that share the least distance from
\* T, the one returned is the first in the order of the result (tables in
\* order, rows in order within a table).
C7_TieFirstInStoreOrder ==
    Found =>
        \E a \in Places :
            /\ location_record = LocationRecord(RowAt(a))
            /\ \A b \in Places :
                  /\ Delta(RowAt(a)._time, timestamp) <= Delta(RowAt(b)._time, timestamp)
                  /\ Delta(RowAt(a)._time, timestamp) = Delta(RowAt(b)._time, timestamp)
                        => (a = b \/ Before(a, b))

\* C7 witness: the rows at T-30 and T+30 tie, they came in different tables
\* with T+30 first, and the row at T+30 was returned.
C7_Witness ==
    /\ Found
    /\ Len(table_list[1]) > 0
    /\ Len(table_list[2]) > 0
    /\ ToTimestamp(table_list[1][1]._time) = timestamp + 30
    /\ \E b \in Places : ToTimestamp(RowAt(b)._time) = timestamp - 30
    /\ location_record.timestamp = timestamp + 30

\* -------------------------------------------------- properties of the crawler
\* The tick is over: the job returned, or an exception ended it.
TickOver == pc \in {"idle", "crashed"} /\ Len(attempts) > 0

\* The attempt produced a sample.
Produced(a) == ~IsNone(a.outcome.result) /\ ~IsRaised(a.outcome.result)

\* The attempt received a document that passed the schema.
GotReply(a) ==
    /\ a.response.kind = "response"
    /\ a.response.status_code = 200
    /\ a.response.content.form = "json"
    /\ a.response.content.doc.shape = "iss"

Reply(a) == a.response.content.doc

\* Number of times a message is in the log.
Count(msg) == Cardinality({ i \in 1..Len(log) : log[i] = msg })

\* The coordinate strings that are no numerals, and the values of the others.
NonNumeric == { <<"7", "-">>, <<>> }

Numeral(str) ==
    CASE str = <<"1", "2">> -> 12
      [] str = <<"-", "7">> -> 0 - 7
      [] str = <<"+", "3">> -> 3

\* C1: in a tick write_data is invoked at most once.
C1_AtMostOneInsertPerTick == Len(writes) <= 1

\* C1 witness: a tick that ended after a failed attempt, a successful one
\* and one insert, which failed.
C1_Witness ==
    /\ pc = "idle"
    /\ Len(attempts) = 2
    /\ Len(writes) = 1
    /\ ~writes[1].ok

\* C2: at most 2 attempts in a tick; a second one is made exactly if the
\* first produced no sample; none is made after a successful one; and if both
\* fail the tick ends without insert and with one error report per failed
\* attempt.
C2_AttemptBudget ==
    /\ Len(attempts) <= 2
    /\ \A i \in 1..(Len(attempts) - 1) : ~Produced(attempts[i])
    /\ TickOver => (Len(attempts) = 2 <=> ~Produced(attempts[1]))
    /\ (TickOver /\ \A i \in 1..Len(attempts) : ~Produced(attempts[i]))
          => (Len(writes) = 0 /\ Count("fetch_failed") = Len(attempts))

\* C8: an attempt that received a payload with a non-numeric latitude or
\* longitude yields no sample, write_data never gets a sample with a missing
\* coordinate, and an insert only follows an attempt whose payload had two
\* numeric coordinates.
C8_NonNumericNeverInserted ==
    /\ \A i \in 1..Len(attempts) :
          ( /\ GotReply(attempts[i])
            /\ \/ Reply(attempts[i]).iss_position.latitude \in NonNumeric
               \/ Reply(attempts[i]).iss_position.longitude \in NonNumeric )
          => IsNone(attempts[i].outcome.result)
    /\ pc = "write" =>
          /\ ~IsNone(iss_data.iss_position.latitude)
          /\ ~IsNone(iss_data.iss_position.longitude)
          /\ Reply(attempts[Len(attempts)]).iss_position.latitude \notin NonNumeric
          /\ Reply(attempts[Len(attempts)]).iss_position.longitude \notin NonNumeric

\* C8 witness: the first attempt got message "success", a numeric latitude
\* and a non-numeric longitude and yielded nothing; the second one led to
\* the tick's insert.
C8_Witness ==
    /\ pc = "idle"
    /\ Len(attempts) = 2
    /\ GotReply(attempts[1])
    /\ Reply(attempts[1]).message = "success"
    /\ Reply(attempts[1]).iss_position.latitude \notin NonNumeric
    /\ Reply(attempts[1]).iss_position.longitude \in NonNumeric
    /\ IsNone(attempts[1].outcome.result)
    /\ Len(writes) = 1

\* C9: an attempt that received a payload whose message is not "success"
\* yields no sample and does not convert the coordinates, and an insert only
\* follows an attempt whose payload said "success".
C9_NotSuccessNeverInserted ==
    /\ \A i \in 1..Len(attempts) :
          (GotReply(attempts[i]) /\ Reply(attempts[i]).message # "success")
          => (IsNone(attempts[i].outcome.result) /\ ~attempts[i].outcome.converted)
    /\ pc = "write" => Reply(attempts[Len(attempts)]).message = "success"

\* C9 witness: a tick ended whose two attempts both got "Success" with two
\* numeric coordinates, and nothing was inserted.
C9_Witness ==
    /\ pc = "idle"
    /\ Len(attempts) = 2
    /\ \A i \in 1..2 :
          /\ GotReply(attempts[i])
          /\ Reply(attempts[i]).message = "Success"
          /\ Reply(attempts[i]).iss_position.latitude \notin NonNumeric
          /\ Reply(attempts[i]).iss_position.longitude \notin NonNumeric
    /\ Len(writes) = 0

\* C10: the point a tick inserts has the latitude and longitude the payload
\* of the tick's last (the successful) attempt denotes, the instant of that
\* payload's timestamp field, and the configured measurement and source; a
\* successful insert leaves exactly that point in the bucket.
C10_InsertedEqualsParsedPayload ==
    \A k \in 1..Len(writes) :
        LET reply == Reply(attempts[Len(attempts)])
            point == writes[k].point
        IN /\ GotReply(attempts[Len(attempts)])
           /\ point.latitude = Numeral(reply.iss_position.latitude)
           /\ point.longitude = Numeral(reply.iss_position.longitude)
           /\ reply.timestamp.hi = 0
           /\ ToTimestamp(point.time) = reply.timestamp.lo
           /\ point.measurement = ConfigMeasurement
           /\ point.source = ConfigSource
           /\ writes[k].ok => point \in store

\* C10 witness: the first attempt got a payload that failed with other
\* coordinates and another timestamp than the second one, whose values were
\* inserted at an instant that is not the payload's timestamp.
C10_Witness ==
    /\ pc = "idle"
    /\ Len(attempts) = 2
    /\ Len(writes) = 1
    /\ writes[1].ok
    /\ GotReply(attempts[1])
    /\ Reply(attempts[1]).timestamp # Reply(attempts[2]).timestamp
    /\ Reply(attempts[1]).iss_position.latitude = <<"1", "2">>
    /\ writes[1].point.latitude = 0 - 7
    /\ now # ToTimestamp(writes[1].point.time)
\* C11: when the insert of a tick fails, the failure is logged as an error,
\* the insert is not repeated, no fetch attempt follows it, and the tick
\* ends normally.
C11_FailedInsertReportedNotRetried ==
    (Len(writes) > 0 /\ ~writes[1].ok) =>
        /\ Count("write") = 1
        /\ Len(writes) = 1
        /\ Produced(attempts[Len(attempts)])
        /\ try_counter = 0
        /\ pc \in {"loop", "idle"}

\* C11 witness: a tick whose first attempt failed and whose second led to
\* an insert that failed has ended.
C11_Witness ==
    /\ pc = "idle"
    /\ Len(attempts) = 2
    /\ Len(writes) = 1
    /\ ~writes[1].ok
    /\ Count("write") = 1
\* C12: whatever the endpoint request does (exception, any status, any
\* body, any document, any timestamp), fetch_and_store_iss_data returns
\* normally: no exception reaches the scheduler loop.
C12_NoExceptionEscapes == pc # "crashed"

\* ------------------------------------------------------- GetLocationHistory
HistoryDone == h_args # <<>>

HistoryFailed == HistoryDone /\ ~h_read_ok

HistorySucceeded == HistoryDone /\ h_read_ok

\* The stored samples of the configured series inside the range asked for.
InRange == { p \in OwnStored : h_args[1] <= ToTimestamp(p.time) /\ ToTimestamp(p.time) < h_args[2] }

\* C13 as stated: when the store query of GetLocationHistory fails, no
\* element at all is yielded and the error is reported.
C13_FailureYieldsNothing ==
    HistoryFailed => (yielded = <<>> /\ h_log # <<>>)

\* C13: when the store query of GetLocationHistory fails, exactly one
\* element is yielded, the None marker, and the error is reported; when it
\* succeeds no None is yielded and no error is reported, so the caller can
\* tell a failed query from an empty range.
C13_FailureYieldsNoneMarker ==
    /\ HistoryFailed => (yielded = << None >> /\ h_log = <<"query">>)
    /\ HistorySucceeded => (h_log = <<>> /\ \A i \in 1..Len(yielded) : yielded[i] # None)

C13_Witness == HistoryFailed /\ InRange # {}

\* Number of rows in the tables before table t.
RECURSIVE RowsBefore(_, _)
RowsBefore(tl, t) == IF t = 1 THEN 0 ELSE RowsBefore(tl, t - 1) + Len(tl[t - 1])

\* C14: GetLocationHistory(start, stop) issues exactly one range query, with
\* the caller's start and stop, and yields exactly one record per row the
\* store returned, in the order of the result (tables in order, rows in order
\* within a table): the stored samples of the range, each once.
C14_OneQueryRecordsInStoreOrder ==
    /\ HistoryDone => (h_queries = << h_args >> /\ h_args \in HistoryRanges)
    /\ HistorySucceeded =>
        /\ Len(yielded) = Cardinality(InRange)
        /\ \A t \in 1..Len(h_table_list) : \A r \in 1..Len(h_table_list[t]) :
            LET row == h_table_list[t][r]
                rec == yielded[RowsBefore(h_table_list, t) + r] IN
            /\ rec.timestamp = ToTimestamp(row._time)
            /\ rec.latitude = row.latitude
            /\ rec.longitude = row.longitude
            /\ rec.source = row.source
        /\ \A p \in InRange :
            Cardinality({ i \in 1..Len(yielded) : yielded[i].timestamp = ToTimestamp(p.time) }) = 1

C14_Witness ==
    /\ HistorySucceeded
    /\ Len(yielded) = 3
    /\ Len(h_table_list[1]) = 1
    /\ yielded[1].timestamp > yielded[2].timestamp
    /\ yielded[2].timestamp < yielded[3].timestamp

\* C15: when the query of GetLocationHistory(start, stop) succeeds and the
\* store holds no sample of the configured series in the range, nothing is
\* yielded and no error is reported.
C15_EmptyRangeYieldsNothing ==
    (HistorySucceeded /\ InRange = {}) => (yielded = <<>> /\ h_log = <<>>)

C15_Witness == HistorySucceeded /\ InRange = {} /\ OwnStored # {}

\* C16: a call of GetClosestEntryByTimestamp or of GetLocationHistory that
\* repeats the call before it with the same arguments, on a store that has
\* not changed and with no query failing in either call, gives the result
\* the call before gave, whatever order the store returns its rows in.
C16_RepeatedCallSameResult ==
    /\ (rpc = "done" /\ previous # None /\ returned_at # "error" /\ previous.returned_at # "error") =>
        /\ returned_at = previous.returned_at
        /\ location_record = previous.location_record
    /\ (HistorySucceeded /\ h_previous # None /\ ~h_previous.failed) =>
        yielded = h_previous.yielded

\* ------------------------------------------------------------- the scheduler
\* C17: a tick starts only when no tick is executing and the job is due, and
\* when a tick ends the next run is planned for an instant still to come, at
\* most one period ahead: runs that became due while the tick was executing
\* are not made up for.
C17_TicksNeverOverlapOrQueue ==
    [][ /\ (wakeup' # wakeup) => (pc = "idle" /\ now >= next_run)
        /\ (pc # "idle" /\ pc' = "idle") => (next_run' > now' /\ next_run' <= now' + Minute) ]_vars

\* A tick has ended that was still executing when the next run became due.
C17_Witness == pc = "idle" /\ Len(attempts) > 0 /\ next_run > NextMinute(wakeup)

\* ---------------------------------------------------- readers and the writer
\* C18: a step that changes the contents of the store is a step of
\* write_data whose write succeeded; no step of GetLocationHistory or of
\* GetClosestEntryByTimestamp changes them, whether their queries fail or
\* not and however the calls and the ticks interleave.
C18_OnlyWriteDataChangesStore ==
    [][ store' # store =>
            /\ pc = "write"
            /\ pc' = "loop"
            /\ Len(writes') = Len(writes) + 1
            /\ writes'[Len(writes')].ok
            /\ store' = Written(store, writes'[Len(writes')].point) ]_vars

\* Both readers have answered from a store the tick has written to.
C18_Witness ==
    /\ Found
    /\ HistorySucceeded
    /\ Len(yielded) > 0
    /\ Len(writes) > 0
    /\ writes[1].ok
    /\ writes[1].point \in store

\* The attempt failed in the conversion of a coordinate string.
CoercionFailed(a) ==
    /\ GotReply(a)
    /\ Reply(a).message = "success"
    /\ DatetimeHolds(Reply(a).timestamp)
    /\ \/ Reply(a).iss_position.latitude \in NonNumeric
       \/ Reply(a).iss_position.longitude \in NonNumeric

\* C19 as stated: after an attempt that failed because a coordinate string
\* is no number, no further fetch attempt is made in that tick.
C19_CoercionFailureNotRetried ==
    \A i \in 1..Len(attempts) : CoercionFailed(attempts[i]) => i = Len(attempts)

\* C19: an attempt that failed because a coordinate string is no number
\* yields no sample and uses up one try of the tick like any other failed
\* attempt: when it was the first attempt of a tick that has ended, a second
\* fetch attempt was made, and never a third.
C19_CoercionFailureUsesOneTry ==
    /\ \A i \in 1..Len(attempts) :
          CoercionFailed(attempts[i]) => (IsNone(attempts[i].outcome.result) /\ i <= Tries)
    /\ (TickOver /\ CoercionFailed(attempts[1])) => Len(attempts) = Tries
    /\ (Len(attempts) > 0 /\ CoercionFailed(attempts[Len(attempts)]) /\ pc = "loop")
          => try_counter = Tries - Len(attempts)

C19_Witness ==
    /\ pc = "idle"
    /\ Len(attempts) = 2
    /\ CoercionFailed(attempts[1])
    /\ Produced(attempts[2])
    /\ Len(writes) = 1

\* C20: a sample that is in the store stays in the store with its
\* coordinates, whatever ticks follow.
C20_StoredSamplesNeverChange ==
    [][ \A p \in store : p \in store' ]_vars

\* ------------------------------------------------- the widening of the window
\* Number of the windows the search can query.
MaxQueries == Ceiling \div Step

C22_TerminatesWithinBoundedQueries ==
    /\ [](Len(windows) <= MaxQueries)
    /\ (rpc = "loop") ~> (rpc = "done")

\* C22 witness: a call has ended after the greatest number of queries.
C22_Witness == rpc = "done" /\ Len(windows) = MaxQueries - 1 /\ timestamp = Base + 15

\* The stored samples of the series in the closed window [T - r, T + r] of
\* the i-th query.
InClosedWindow(i) ==
    { p \in OwnStored : /\ windows[i][1] <= ToTimestamp(p.time)
                        /\ ToTimestamp(p.time) <= timestamp + (timestamp - windows[i][1]) }

\* C23: every stored sample of the series whose timestamp lies in the closed
\* window [T - radius, T + radius] of a query is among the candidates of that
\* query: a query that came back empty had no such sample, and the rows of a
\* query that came back with rows include every such sample.
C23_QueryCoversClosedWindow ==
    /\ \A i \in 1..Len(windows) :
          (i < Len(windows) \/ returned_at \in {"none", "not_found"}) => InClosedWindow(i) = {}
    /\ Found =>
          \A p \in InClosedWindow(Len(windows)) : \E a \in Places : RowAt(a) = RowValues(p)

\* ------------------------------------------------- the stages of an attempt
PassedRequest(a) == a.response.kind = "response"

PassedStatus(a) == PassedRequest(a) /\ a.response.status_code = 200

PassedDecode(a) == PassedStatus(a) /\ a.response.content.form = "json"

PassedSchema(a) == PassedDecode(a) /\ a.response.content.doc.shape = "iss"

PassedMessage(a) == PassedSchema(a) /\ a.response.content.doc.message = "success"

PassedCoercion(a) ==
    /\ PassedMessage(a)
    /\ a.response.content.doc.iss_position.latitude \notin NonNumeric
    /\ a.response.content.doc.iss_position.longitude \notin NonNumeric

\* C24: write_data is called in a tick only with the sample of the tick's
\* last attempt, and that attempt passed every stage: the request returned,
\* the status was 200, the body decoded, the document passed the schema, the
\* message was "success" and both coordinates parsed. An attempt that failed
\* at a stage logged the error of that stage only and did not reach the
\* conversion unless all stages before it passed.
C24_InsertOnlyAfterAllStages ==
    /\ (pc = "write" \/ Len(writes) > 0) =>
          /\ PassedCoercion(attempts[Len(attempts)])
          /\ attempts[Len(attempts)].outcome.errors = <<>>
          /\ iss_data = attempts[Len(attempts)].outcome.result
          /\ \A i \in 1..(Len(attempts) - 1) : IsNone(attempts[i].outcome.result)
    /\ \A i \in 1..Len(attempts) :
          LET a == attempts[i] IN
          /\ a.outcome.converted => PassedMessage(a)
          /\ ~PassedRequest(a) => a.outcome.errors = <<"request">>
          /\ (PassedRequest(a) /\ ~PassedStatus(a)) => a.outcome.errors = <<"status">>
          /\ (PassedStatus(a) /\ a.response.content.form = "not_json") => a.outcome.errors = <<"decode">>
          /\ (PassedDecode(a) /\ ~PassedSchema(a)) => a.outcome.errors = <<"schema">>
          /\ (PassedSchema(a) /\ ~PassedMessage(a)) => a.outcome.errors = <<"message">>
          /\ ~PassedCoercion(a) => ~Produced(a)

\* C24 witness: the first attempt got a complete reply with status 503 and
\* stopped at the status; the second passed all stages and was inserted.
C24_Witness ==
    /\ pc = "idle"
    /\ Len(attempts) = 2
    /\ PassedRequest(attempts[1])
    /\ attempts[1].response.status_code = 503
    /\ attempts[1].response.content.form = "json"
    /\ attempts[1].outcome.errors = <<"status">>
    /\ PassedCoercion(attempts[2])
    /\ Len(writes) = 1
    /\ writes[1].ok

\* C25: an attempt whose response body is no JSON text, or bytes in no valid
\* encoding, is a failed attempt like any other: it yields no sample, raises
\* nothing, uses up one try, and the tick goes on to its regular end.
C25_UndecodableBodyIsFailedAttempt ==
    \A i \in 1..Len(attempts) :
        (PassedStatus(attempts[i]) /\ ~PassedDecode(attempts[i])) =>
            /\ IsNone(attempts[i].outcome.result)
            /\ pc # "crashed"
            /\ (i = Len(attempts) /\ pc = "loop") => try_counter = Tries - i

\* C26: a tick that has begun ends, and in a tick there are never more than
\* 2 endpoint requests nor more than 1 insert, and the try counter is never
\* below 0.
C26_TickTerminatesWithinBudget ==
    /\ [](Len(attempts) <= Tries /\ Len(writes) <= 1 /\ try_counter >= 0)
    /\ (pc \in {"loop", "write"}) ~> (pc \in {"idle", "crashed"})

\* C26 witness: a tick has ended after 2 requests and 1 insert.
C26_Witness ==
    /\ pc = "idle"
    /\ Len(attempts) = Tries
    /\ Len(writes) = 1
    /\ try_counter = 0
    /\ wakeup < now

\* ------------------------------------------------------ the end of the search
\* The stored samples of the series the i-th query of the call covers.
Covered(i) == QueryRows(store, windows[i][1], windows[i][2])

\* C27: on a store that does not change, every query of a call before its
\* last one found no sample and did not fail; the call ends with the first
\* query that finds samples or fails, and the sample returned is one of the
\* rows of that last query.
C27_StopsAtFirstDecisiveQuery ==
    /\ \A i \in 1..(Len(windows) - 1) : Covered(i) = {}
    /\ (rpc = "loop" /\ Len(windows) > 0) => Covered(Len(windows)) = {}
    /\ NotFound => Covered(Len(windows)) = {}
    /\ Found =>
          /\ Covered(Len(windows)) # {}
          /\ \A a \in Places : \E p \in Covered(Len(windows)) : RowAt(a) = RowValues(p)
          /\ \E a \in Places :
                /\ location_record.timestamp = ToTimestamp(RowAt(a)._time)
                /\ location_record.latitude = RowAt(a).latitude
                /\ location_record.longitude = RowAt(a).longitude
    /\ Failed => Len(windows) > 0

\* C27 witness: the call returned a sample at its second query, the sample
\* at T + 60 the first window leaves out, with a stored sample outside the
\* last window.
C27_Witness ==
    /\ Found
    /\ Len(windows) = 2
    /\ location_record.timestamp = timestamp + Step
    /\ OwnStored \ Covered(2) # {}

\* C28: the sample a call returns was in the store when its last query ran
\* and no sample of the series in the store at that moment was closer to T,
\* with inserts of the crawler between the queries.
C28_ReturnedFromStoreAtLastQuery ==
    [][ (rpc = "loop" /\ returned_at' = "found") =>
            /\ \E p \in OwnStored :
                  /\ location_record'.timestamp = ToTimestamp(p.time)
                  /\ location_record'.latitude = p.latitude
                  /\ location_record'.longitude = p.longitude
            /\ \A p \in OwnStored :
                  Distance(p) >= Abs(location_record'.timestamp - timestamp) ]_vars

\* C28 witness: the first query of the call was empty, and the sample the
\* second query returned lies in the first window: it was inserted between
\* the two queries.
C28_Witness ==
    /\ Found
    /\ Len(windows) = 2
    /\ windows[1][1] <= location_record.timestamp
    /\ location_record.timestamp < windows[1][2]
    /\ Len(writes) = 1
    /\ ToTimestamp(writes[1].point.time) = location_record.timestamp

\* No two stored samples of the series are equally far from T.
NoTies == \A p \in OwnStored : \A q \in OwnStored : p # q => Distance(p) # Distance(q)

\* C29: when no two stored samples are equally far from T, a call that
\* repeats the call before it on the same store returns what that call
\* returned, whatever the orders in which the store returned the rows to the
\* two calls (no query failing in either).
C29_OrderIndependentWithoutTies ==
    (rpc = "done" /\ previous # None /\ returned_at # "error" /\ previous.returned_at # "error"
        /\ NoTies) =>
        /\ returned_at = previous.returned_at
        /\ location_record = previous.location_record

\* C29 witness: both calls returned a sample, the result of the second had
\* several rows and the row returned was not the first of them.
C29_Witness ==
    /\ Found
    /\ previous # None
    /\ previous.returned_at = "found"
    /\ NoTies
    /\ Len(Flatten(table_list)) >= 2
    /\ ToTimestamp(Flatten(table_list)[1]._time) # location_record.timestamp

\* ------------------------------------------------------------ the web server
\* The response with status 400 and the empty JSON list.
EmptyBadRequest == [status |-> StatusBadRequest, body |-> [json |-> "array", items |-> <<>>]]

\* C30: when the SoapClient method returned None to either handler, the
\* HTTP response has status 400 and the body [], as it has when the closest
\* entry call returned no record.
C30_SoapFailureGivesEmpty400 ==
    /\ (w_handler # "none" /\ w_soap = None) => w_response = EmptyBadRequest
    /\ (w_handler = "closest" /\ w_soap = PyList(<< None >>)) => w_response = EmptyBadRequest
====
